---- MODULE Spec2Model ----
(***************************************************************************)
(* A model of run_screener.py: the universe fetch, the stage-1 dividend    *)
(* prefilter, the per-ticker enrichment loop with its rule evaluation,     *)
(* and the report assembly.                                                *)
(*                                                                         *)
(* Numbers are exact rationals [k |-> "num", n, d] in lowest terms with    *)
(* d > 0, standing for Python floats.  JSON values are tagged records:     *)
(* scalars carry k in {"none","num","nan","str","numstr"}, containers      *)
(* carry k = "list" (items) or k = "dict" (d, a function on its keys).     *)
(* Strings that the code upper-cases and strips are sequences of           *)
(* one-character strings.                                                  *)
(***************************************************************************)
EXTENDS Integers, Sequences, FiniteSets, TLC

\* ------------------------------------------------------------------------
\* Bounds of the model
\* ------------------------------------------------------------------------
\* Largest number of rows in the company-screener response.
MaxRows == 2
\* Largest numerator of a value given to _normalize_div_yield on its own.
MaxYield == 120

\* ------------------------------------------------------------------------
\* Scalars
\* ------------------------------------------------------------------------
Abs(x) == IF x < 0 THEN -x ELSE x

RECURSIVE GCD(_, _)
GCD(a, b) == IF b = 0 THEN a ELSE GCD(b, a % b)

\* Python None
None == [k |-> "none", n |-> 0, d |-> 1]
\* float("nan")
NaN == [k |-> "nan", n |-> 0, d |-> 1]
\* a string float() cannot parse
BadStr == [k |-> "str", n |-> 0, d |-> 1]

\* the number n/d, d # 0
Num(n, d) ==
    LET s == IF d < 0 THEN -1 ELSE 1
        g == GCD(Abs(n), Abs(d))
    IN  [k |-> "num", n |-> (s * n) \div g, d |-> (s * d) \div g]

\* a string that float() parses to n/d
NumStr(n, d) == [k |-> "numstr", n |-> n, d |-> d]

IsNum(x) == x.k = "num"

\* a < b, a <= b, a / b on numbers; any comparison with NaN is False
Lt(a, b) == IsNum(a) /\ IsNum(b) /\ a.n * b.d < b.n * a.d
Le(a, b) == IsNum(a) /\ IsNum(b) /\ a.n * b.d <= b.n * a.d
Ge(a, b) == Le(b, a)
Gt(a, b) == Lt(b, a)

\* float division as pandas does it on a numeric column: NaN propagates
Divide(a, b) ==
    IF IsNum(a) /\ IsNum(b) /\ b.n # 0 THEN Num(a.n * b.d, a.d * b.n) ELSE NaN

Pow10(nd) == CASE nd = 2 -> 100 [] nd = 4 -> 10000 [] nd = 6 -> 1000000

\* round(x, nd): nearest multiple of 10^-nd, ties to even; NaN stays NaN
Round(x, nd) ==
    IF ~IsNum(x) THEN x
    ELSE LET m == Pow10(nd)
             q == (x.n * m) \div x.d
             r == (x.n * m) % x.d
             up == 2 * r > x.d \/ (2 * r = x.d /\ q % 2 = 1)
         IN  Num(IF up THEN q + 1 ELSE q, m)

\* ------------------------------------------------------------------------
\* Program constants
\* ------------------------------------------------------------------------
TREASURY_10Y == Num(423, 10000)
MAX_TICKERS_TO_EVALUATE == 1200
DEBUG_SAVE_FIRST_N == 3
TOP_N == 60
PE_MAX == Num(13, 1)
PB_MAX == Num(1, 1)
DE_MAX == Num(1, 1)
One == Num(1, 1)
Hundred == Num(100, 1)

ALLOWED_EXCHANGES ==
    { <<"N", "Y", "S", "E">>, <<"N", "A", "S", "D", "A", "Q">>, <<"A", "M", "E", "X">> }

\* ------------------------------------------------------------------------
\* Pure helpers of the module
\* ------------------------------------------------------------------------
\* _to_float
_to_float(x) ==
    CASE x.k = "none"   -> None
      [] x.k = "num"    -> x
      [] x.k = "nan"    -> x
      [] x.k = "numstr" -> Num(x.n, x.d)
      [] OTHER          -> None

\* _normalize_div_yield with the comparison "dy >= 1.0"
normalize_FromOne(dy) ==
    LET f == _to_float(dy)
    IN  IF f = None THEN None
        ELSE IF Ge(f, One) THEN Divide(f, Hundred)
        ELSE f

\* _normalize_div_yield
_normalize_div_yield(dy) ==
    LET f == _to_float(dy)
    IN  IF f = None THEN None
        ELSE IF Gt(f, One) THEN Divide(f, Hundred)
        ELSE f

\* _pick: the first key of keys that d holds with a non-None value
RECURSIVE _pick(_, _)
_pick(d, keys) ==
    IF keys = <<>> THEN None
    ELSE IF Head(keys) \in DOMAIN d /\ d[Head(keys)] # None THEN d[Head(keys)]
    ELSE _pick(d, Tail(keys))

IsList(x) == x.k = "list"
IsDict(x) == x.k = "dict"
List(items) == [k |-> "list", items |-> items]
Dict(d) == [k |-> "dict", d |-> d]
Text(s) == [k |-> "text", s |-> s]

wrapper_keys == <<"data", "result", "results", "items", "metrics", "ratios">>

\* payload[k] is a non-empty list whose first element is a dict
HoldsRecords(d, k) ==
    /\ k \in DOMAIN d
    /\ IsList(d[k])
    /\ Len(d[k].items) > 0
    /\ IsDict(d[k].items[1])

\* the first loop of case 2: a wrapper key that holds a list of dicts
RECURSIVE FirstWrapped(_, _)
FirstWrapped(d, keys) ==
    IF keys = <<>> THEN None
    ELSE IF HoldsRecords(d, Head(keys)) THEN d[Head(keys)].items[1]
    ELSE FirstWrapped(d, Tail(keys))

\* the second loop of case 2: a wrapper key that holds a dict which wraps a list
RECURSIVE FirstNested(_, _)
FirstNested(d, keys) ==
    IF keys = <<>> THEN None
    ELSE LET k == Head(keys)
             inner == IF k \in DOMAIN d /\ IsDict(d[k])
                      THEN FirstWrapped(d[k].d, wrapper_keys) ELSE None
         IN  IF inner # None THEN inner ELSE FirstNested(d, Tail(keys))

\* _extract_first_record
_extract_first_record(payload) ==
    IF payload = None THEN None
    ELSE IF IsList(payload)
         THEN IF Len(payload.items) > 0 /\ IsDict(payload.items[1])
              THEN payload.items[1] ELSE None
    ELSE IF IsDict(payload)
         THEN IF FirstWrapped(payload.d, wrapper_keys) # None
              THEN FirstWrapped(payload.d, wrapper_keys)
              ELSE IF FirstNested(payload.d, wrapper_keys) # None
              THEN FirstNested(payload.d, wrapper_keys)
              ELSE payload
    ELSE None

\* str.upper on one character
UpperChar(c) ==
    CASE c = "a" -> "A" [] c = "b" -> "B" [] c = "c" -> "C" [] c = "d" -> "D"
      [] c = "e" -> "E" [] c = "m" -> "M" [] c = "n" -> "N" [] c = "o" -> "O"
      [] c = "q" -> "Q" [] c = "s" -> "S" [] c = "t" -> "T" [] c = "x" -> "X"
      [] c = "y" -> "Y" [] OTHER -> c

Upper(s) == [j \in 1..Len(s) |-> UpperChar(s[j])]

RECURSIVE LStrip(_)
LStrip(s) == IF s # <<>> /\ Head(s) = " " THEN LStrip(Tail(s)) ELSE s

RECURSIVE RStrip(_)
RStrip(s) ==
    IF s # <<>> /\ s[Len(s)] = " " THEN RStrip(SubSeq(s, 1, Len(s) - 1)) ELSE s

\* str.strip
Strip(s) == RStrip(LStrip(s))

\* astype(str) on a cell of an object column
AsStr(c) ==
    CASE c.k = "text" -> c.s
      [] c.k = "nan"  -> <<"n", "a", "n">>
      [] c.k = "none" -> <<"N", "o", "n", "e">>

\* pd.to_numeric(errors="coerce") on one cell
ToNumeric(c) ==
    CASE c.k = "num"    -> c
      [] c.k = "numstr" -> Num(c.n, c.d)
      [] OTHER          -> NaN

\* ------------------------------------------------------------------------
\* Responses of the data provider that the model draws from
\* ------------------------------------------------------------------------
Resp(status, body) == [status |-> status, body |-> body]

\* requests.Response.ok
Ok(resp) == resp.status < 400

\* _get_json: raise_for_status() raises for a response that is not ok
_get_json(resp) ==
    IF ~Ok(resp) THEN [raised |-> TRUE, value |-> None]
    ELSE [raised |-> FALSE, value |-> resp.body]

Row(symbol, price, short, exch, lad) ==
    Dict(("symbol" :> Text(symbol)) @@ ("price" :> price)
         @@ ("exchangeShortName" :> Text(short)) @@ ("exchange" :> Text(exch))
         @@ ("lastAnnualDividend" :> lad))

\* d without the key k
Without(d, k) == [x \in (DOMAIN d) \ {k} |-> d[x]]

NYSE == <<"N", "Y", "S", "E">>
OTC == <<"O", "T", "C">>

\* estimate 0.1
rowA == Row(<<"A">>, Num(10, 1), NYSE, OTC, Num(1, 1))
\* the ticker A again, spelled differently, with a percent-scale quotient:
\* 100 / 20 = 5 -> 0.05
rowA2 == Row(<<"a", " ">>, NumStr(20, 1), <<" ", "a", "m", "e", "x">>, OTC, Num(100, 1))
\* only the "exchange" column; 2500 / 10.004 -> 2.499
rowC == Dict(Without(Row(<<"C">>, Num(2501, 250), OTC, <<"N", "A", "S", "D", "A", "Q">>,
                         Num(2500, 1)).d, "exchangeShortName"))
\* not on an allowed exchange
rowOTC == Row(<<"D">>, Num(10, 1), OTC, NYSE, Num(1, 1))
\* unparseable price, zero price
rowBadPrice == Row(<<"E">>, BadStr, NYSE, NYSE, Num(1, 1))
rowZero == Row(<<"E">>, Num(0, 1), NYSE, NYSE, Num(1, 1))
\* estimate 0.01, below the threshold
rowLow == Row(<<"E">>, Num(10, 1), NYSE, NYSE, Num(1, 10))
\* rows that lack a column
rowNoDiv == Dict(Without(rowA.d, "lastAnnualDividend"))
rowNoSym == Dict(Without(rowLow.d, "symbol"))
rowNoPrice == Dict(Without(rowA.d, "price"))
rowNoExch == Dict(Without(Without(rowA.d, "exchange"), "exchangeShortName"))

UniverseRows ==
    { rowA, rowA2, rowC, rowOTC, rowBadPrice, rowZero, rowLow,
      rowNoDiv, rowNoSym, rowNoPrice, rowNoExch }

SeqsUpTo(S, n) == UNION { [1..m -> S] : m \in 0..n }

UniverseResponses ==
    { Resp(200, List(rows)) : rows \in SeqsUpTo(UniverseRows, MaxRows) }
    \cup { Resp(200, Dict("error" :> BadStr)), Resp(429, None) }

\* a flat ratios record
Ratios(pe, pb, de, dy) ==
    Dict(("peRatioTTM" :> pe) @@ ("priceToBookRatioTTM" :> pb)
         @@ ("debtEquityRatioTTM" :> de) @@ ("dividendYieldTTM" :> dy))

\* the sixteen outcomes of the four rules, as a list of one flat record
RatiosGrid ==
    { List(<<Ratios(pe, pb, de, dy)>>) :
        pe \in {Num(10, 1), Num(20, 1)}, pb \in {Num(4, 5), Num(2, 1)},
        de \in {Num(1, 2), Num(2, 1)}, dy \in {Num(6, 100), Num(3, 100)} }

\* negative multiples, a percent-scale yield, no debt/equity
ratiosNegative ==
    Dict(("peRatioTTM" :> None) @@ ("peRatio" :> Num(-5, 1)) @@ ("pbRatio" :> Num(-1, 1))
         @@ ("dividendYield" :> Num(62, 10)))
\* a wrapper; price/earnings and yield are present but not numbers
ratiosUnparseable ==
    Dict("data" :> List(<<Dict(("peRatioTTM" :> BadStr) @@ ("peRatio" :> Num(10, 1))
                               @@ ("priceToBookRatio" :> NumStr(1, 1))
                               @@ ("debtToEquity" :> Num(1, 1))
                               @@ ("dividendYieldTTM" :> BadStr))>>))
\* an empty list
ratiosEmpty == List(<<>>)
\* a yield far above 100 percent
ratiosHuge == List(<<Ratios(Num(25, 3), Num(1, 1), Num(1, 1), Num(250, 1))>>)

metricsNone == None
metricsFull ==
    List(<<Dict(("peRatioTTM" :> Num(12, 1)) @@ ("pbRatio" :> Num(1, 2))
                @@ ("debtToEquity" :> Num(1, 2)) @@ ("dividendYieldTTM" :> Num(5, 100)))>>)
\* a nested wrapper with price/earnings and debt/equity only
metricsNested ==
    Dict("result" :> Dict("items" :> List(<<Dict(("peRatio" :> Num(20, 1))
                                                 @@ ("debtEquityRatio" :> Num(1, 2)))>>)))

\* the (ratios-ttm, key-metrics-ttm) bodies one ticker may get
EnrichmentBodies ==
    { <<r, metricsNone>> : r \in RatiosGrid }
    \cup { <<ratiosNegative, metricsFull>>, <<ratiosNegative, metricsNone>>,
           <<ratiosUnparseable, metricsFull>>, <<ratiosUnparseable, metricsNested>>,
           <<ratiosEmpty, metricsFull>>, <<ratiosEmpty, metricsNested>>,
           <<ratiosEmpty, metricsNone>>, <<ratiosHuge, metricsNone>> }

\* the ratios-ttm bodies that may precede a failing key-metrics-ttm request
BodiesBeforeFailure == {ratiosNegative, ratiosEmpty}

\* ------------------------------------------------------------------------
\* State of one run of main()
\* ------------------------------------------------------------------------
VARIABLES
    pc,               \* "start", "loop", "done" or "aborted"
    err,              \* the exception that ended main(), or "none"
    df,               \* the filtered universe frame
    stage1,           \* the prefiltered, sorted frame the loop walks
    i,                \* position of the loop in stage1 (next row to process)
    results,          \* list of evaluated records
    skipped_missing,
    debug_saved,
    loc,              \* the loop body's local variables after its last run
    files,            \* the files written so far: name -> content
    norm              \* a value and its images under _normalize_div_yield

vars == <<pc, err, df, stage1, i, results, skipped_missing, debug_saved, loc, files, norm>>

mainVars == <<pc, err, df, stage1, i, results, skipped_missing, debug_saved, loc, files>>

NoFiles == [x \in {} |-> None]

NoLocals ==
    [sym |-> <<>>, exch |-> <<>>, px |-> None, est |-> None,
     ratios_payload |-> None, metrics_payload |-> None,
     pe |-> None, pb |-> None, debt_equity |-> None, div_yield |-> None]

NormIdle == [step |-> 0, x |-> None, once |-> None, twice |-> None]

MainInit ==
    /\ pc = "start"
    /\ err = "none"
    /\ df = <<>>
    /\ stage1 = <<>>
    /\ i = 1
    /\ results = <<>>
    /\ skipped_missing = 0
    /\ debug_saved = 0
    /\ loc = NoLocals
    /\ files = NoFiles

Init ==
    /\ MainInit
    /\ norm = NormIdle

\* ------------------------------------------------------------------------
\* Frames
\* ------------------------------------------------------------------------
Min(a, b) == IF a < b THEN a ELSE b

\* DataFrame.head(n)
HeadN(s, n) == SubSeq(s, 1, Min(n, Len(s)))

RECURSIVE Filter(_, _)
\* the rows of s whose index is in keep, in order
Filter(s, keep) ==
    IF s = <<>> THEN <<>>
    ELSE LET n == Len(s)
             front == Filter(SubSeq(s, 1, n - 1), keep)
         IN  IF n \in keep THEN Append(front, s[n]) ELSE front

\* the rows of s in every order
Arrangements(s) ==
    { [j \in 1..Len(s) |-> s[p[j]]] : p \in Permutations(1..Len(s)) }

\* the columns of DataFrame(data)
Columns(data) == UNION { DOMAIN data.items[j].d : j \in 1..Len(data.items) }

\* a cell of DataFrame(data): NaN where the row lacks the column
Cell(row, col) == IF col \in DOMAIN row.d THEN row.d[col] ELSE NaN

\* lines 143-148 and 154 on one row
CanonicalRow(row, exch_col) ==
    LET price == ToNumeric(Cell(row, "price"))
        lad == ToNumeric(Cell(row, "lastAnnualDividend"))
    IN  [ticker |-> Strip(Upper(AsStr(Cell(row, "symbol")))),
         exchange |-> Strip(Upper(AsStr(Cell(row, exch_col)))),
         price |-> price,
         lastAnnualDividend |-> lad,
         divYield_est |-> _normalize_div_yield(Divide(lad, price))]

\* lines 150-152
InUniverse(r) ==
    /\ r.exchange \in ALLOWED_EXCHANGES
    /\ IsNum(r.price)
    /\ Gt(r.price, Num(0, 1))

\* line 156
InStage1(r) == IsNum(r.divYield_est) /\ Ge(r.divYield_est, TREASURY_10Y)

EstBefore(a, b) == Ge(a.divYield_est, b.divYield_est)

\* line 157: the orders sort_values("divYield_est", ascending=False) may
\* leave the rows in; rows with equal keys are in no guaranteed order
Stage1Orders(kept) ==
    { t \in Arrangements(kept) :
        \A j \in 1..(Len(t) - 1) : EstBefore(t[j], t[j + 1]) }

\* lines 143-154
UniverseFrame(data, exch_col) ==
    LET rows == [j \in 1..Len(data.items) |-> CanonicalRow(data.items[j], exch_col)]
    IN  Filter(rows, { j \in 1..Len(rows) : InUniverse(rows[j]) })

\* ------------------------------------------------------------------------
\* main(), lines 128-162: fetch the universe and build stage1
\* ------------------------------------------------------------------------
Abort(e) ==
    /\ pc' = "aborted"
    /\ err' = e

FetchUniverse ==
    /\ pc = "start"
    /\ \E resp \in UniverseResponses :
         LET got == _get_json(resp)
             data == got.value
             cols == Columns(data)
             exch_candidates ==
                 SelectSeq(<<"exchangeShortName", "exchange">>, LAMBDA c : c \in cols)
         IN  IF got.raised
             THEN Abort("HTTPError") /\ UNCHANGED <<df, stage1>>
             ELSE IF ~IsList(data) \/ Len(data.items) = 0
             THEN Abort("SystemExit") /\ UNCHANGED <<df, stage1>>
             ELSE IF "symbol" \notin cols \/ "price" \notin cols
             THEN Abort("SystemExit") /\ UNCHANGED <<df, stage1>>
             ELSE IF exch_candidates = <<>>
             THEN Abort("SystemExit") /\ UNCHANGED <<df, stage1>>
             ELSE IF "lastAnnualDividend" \notin cols
             THEN Abort("SystemExit") /\ UNCHANGED <<df, stage1>>
             ELSE LET frame == UniverseFrame(data, exch_candidates[1])
                      kept == Filter(frame, { j \in 1..Len(frame) : InStage1(frame[j]) })
                  IN  /\ df' = frame
                      /\ \E sorted \in Stage1Orders(kept) :
                             stage1' = HeadN(sorted, MAX_TICKERS_TO_EVALUATE)
                      /\ pc' = "loop"
                      /\ err' = err
    /\ UNCHANGED <<i, results, skipped_missing, debug_saved, loc, files, norm>>

\* ------------------------------------------------------------------------
\* main(), lines 164-229: one iteration of the enrichment loop
\* ------------------------------------------------------------------------
RATIOS_PE_KEYS == <<"peRatioTTM", "peRatio", "priceToEarningsRatioTTM", "priceToEarningsRatio">>
RATIOS_PB_KEYS == <<"priceToBookRatioTTM", "priceToBookRatio", "pbRatioTTM", "pbRatio">>
DE_KEYS == <<"debtEquityRatioTTM", "debtEquityRatio", "debtToEquity", "debtToEquityRatio">>
DY_KEYS == <<"dividendYieldTTM", "dividendYield">>
METRICS_PE_KEYS == <<"peRatioTTM", "peRatio">>
METRICS_PB_KEYS == <<"pbRatioTTM", "pbRatio", "priceToBookRatioTTM", "priceToBookRatio">>

\* lines 183-189: the four values after the ratios record has been read
FromRatios(ratios) ==
    IF IsDict(ratios)
    THEN [pe |-> _to_float(_pick(ratios.d, RATIOS_PE_KEYS)),
          pb |-> _to_float(_pick(ratios.d, RATIOS_PB_KEYS)),
          debt_equity |-> _to_float(_pick(ratios.d, DE_KEYS)),
          div_yield |-> _normalize_div_yield(_pick(ratios.d, DY_KEYS))]
    ELSE [pe |-> None, pb |-> None, debt_equity |-> None, div_yield |-> None]

\* lines 191-199 with the "if pe is None" guard left out
FromMetrics_OverwritesPe(v, metrics) ==
    IF IsDict(metrics)
    THEN [pe |-> _to_float(_pick(metrics.d, METRICS_PE_KEYS)),
          pb |-> IF v.pb = None
                 THEN _to_float(_pick(metrics.d, METRICS_PB_KEYS)) ELSE v.pb,
          debt_equity |-> IF v.debt_equity = None
                          THEN _to_float(_pick(metrics.d, DE_KEYS)) ELSE v.debt_equity,
          div_yield |-> IF v.div_yield = None
                        THEN _normalize_div_yield(_pick(metrics.d, DY_KEYS))
                        ELSE v.div_yield]
    ELSE v

\* lines 191-199: the key-metrics record fills only what is still None
FromMetrics(v, metrics) ==
    IF IsDict(metrics)
    THEN [pe |-> IF v.pe = None
                 THEN _to_float(_pick(metrics.d, METRICS_PE_KEYS)) ELSE v.pe,
          pb |-> IF v.pb = None
                 THEN _to_float(_pick(metrics.d, METRICS_PB_KEYS)) ELSE v.pb,
          debt_equity |-> IF v.debt_equity = None
                          THEN _to_float(_pick(metrics.d, DE_KEYS)) ELSE v.debt_equity,
          div_yield |-> IF v.div_yield = None
                        THEN _normalize_div_yield(_pick(metrics.d, DY_KEYS))
                        ELSE v.div_yield]
    ELSE v

\* lines 201-203: the fallback to the stage-1 estimate
FromEstimate(v, est) ==
    [v EXCEPT !.div_yield = IF v.div_yield = None THEN _normalize_div_yield(est)
                            ELSE v.div_yield]

\* lines 180-203
EnrichedValues(ratios_payload, metrics_payload, est) ==
    FromEstimate(FromMetrics(FromRatios(_extract_first_record(ratios_payload)),
                             _extract_first_record(metrics_payload)),
                 est)

\* line 205 without the test of pb
Missing_IgnoresPb(v) ==
    v.pe = None \/ v.debt_equity = None \/ v.div_yield = None

\* line 205 without the test of debt_equity
Missing_IgnoresDebtEquity(v) ==
    v.pe = None \/ v.pb = None \/ v.div_yield = None

\* line 205
Missing(v) ==
    v.pe = None \/ v.pb = None \/ v.debt_equity = None \/ v.div_yield = None

\* lines 209-229 with rule_de left out of the conjunction of line 214
Evaluate_PassesWithoutDe(sym, exch, px, v) ==
    LET rule_div == Ge(v.div_yield, TREASURY_10Y)
        rule_pe == Le(v.pe, PE_MAX)
        rule_pb == Le(v.pb, PB_MAX)
        rule_de == Le(v.debt_equity, DE_MAX)
        passes == rule_div /\ rule_pe /\ rule_pb
    IN  [ticker |-> sym,
         exchange |-> exch,
         price |-> Round(px, 2),
         divYield |-> Round(v.div_yield, 6),
         pe |-> Round(v.pe, 4),
         pb |-> Round(v.pb, 4),
         debtEquity |-> Round(v.debt_equity, 4),
         rule_div |-> rule_div,
         rule_pe |-> rule_pe,
         rule_pb |-> rule_pb,
         rule_de |-> rule_de,
         passes |-> passes]

\* lines 209-229: the four rules and the record appended to results
Evaluate(sym, exch, px, v) ==
    LET rule_div == Ge(v.div_yield, TREASURY_10Y)
        rule_pe == Le(v.pe, PE_MAX)
        rule_pb == Le(v.pb, PB_MAX)
        rule_de == Le(v.debt_equity, DE_MAX)
        passes == rule_div /\ rule_pe /\ rule_pb /\ rule_de
    IN  [ticker |-> sym,
         exchange |-> exch,
         price |-> Round(px, 2),
         divYield |-> Round(v.div_yield, 6),
         pe |-> Round(v.pe, 4),
         pb |-> Round(v.pb, 4),
         debtEquity |-> Round(v.debt_equity, 4),
         rule_div |-> rule_div,
         rule_pe |-> rule_pe,
         rule_pb |-> rule_pb,
         rule_de |-> rule_de,
         passes |-> passes]

DebugRatiosName(n) ==
    CASE n = 1 -> "debug_ratios_1.json" [] n = 2 -> "debug_ratios_2.json"
      [] n = 3 -> "debug_ratios_3.json"
DebugMetricsName(n) ==
    CASE n = 1 -> "debug_metrics_1.json" [] n = 2 -> "debug_metrics_2.json"
      [] n = 3 -> "debug_metrics_3.json"

\* open(name, "w") and json.dump: the file holds content, replacing what it held
WriteFile(fs, name, content) == (name :> content) @@ fs

InLoop == pc = "loop" /\ i <= Len(stage1)

\* line 169 raises: fetch_ratios_ttm got a response that is not ok
FetchRatiosFails ==
    /\ InLoop
    /\ \E rr \in {Resp(429, None), Resp(500, BadStr)} :
         /\ _get_json(rr).raised
         /\ loc' = [loc EXCEPT !.sym = stage1[i].ticker, !.px = stage1[i].price,
                               !.exch = stage1[i].exchange, !.est = stage1[i].divYield_est]
    /\ Abort("HTTPError")
    /\ UNCHANGED <<df, stage1, i, results, skipped_missing, debug_saved, files, norm>>

\* line 170 raises: fetch_key_metrics_ttm got a response that is not ok
FetchMetricsFails ==
    /\ InLoop
    /\ \E body \in BodiesBeforeFailure, mr \in {Resp(429, None), Resp(500, BadStr)} :
         /\ ~_get_json(Resp(200, body)).raised
         /\ _get_json(mr).raised
         /\ loc' = [loc EXCEPT !.sym = stage1[i].ticker, !.px = stage1[i].price,
                               !.exch = stage1[i].exchange, !.est = stage1[i].divYield_est,
                               !.ratios_payload = _get_json(Resp(200, body)).value]
    /\ Abort("HTTPError")
    /\ UNCHANGED <<df, stage1, i, results, skipped_missing, debug_saved, files, norm>>

\* lines 164-229 when both requests succeed
Enrich ==
    /\ InLoop
    /\ \E b \in EnrichmentBodies :
         LET r == stage1[i]
             sym == r.ticker
             px == r.price
             exch == r.exchange
             rgot == _get_json(Resp(200, b[1]))
             mgot == _get_json(Resp(200, b[2]))
             ratios_payload == rgot.value
             metrics_payload == mgot.value
             v == EnrichedValues(ratios_payload, metrics_payload, r.divYield_est)
         IN  /\ ~rgot.raised /\ ~mgot.raised
             /\ IF debug_saved < DEBUG_SAVE_FIRST_N
                THEN /\ files' = WriteFile(
                                   WriteFile(files, DebugRatiosName(debug_saved + 1),
                                             [symbol |-> sym, payload |-> ratios_payload]),
                                   DebugMetricsName(debug_saved + 1),
                                   [symbol |-> sym, payload |-> metrics_payload])
                     /\ debug_saved' = debug_saved + 1
                ELSE UNCHANGED <<files, debug_saved>>
             /\ loc' = [sym |-> sym, exch |-> exch, px |-> px, est |-> r.divYield_est,
                        ratios_payload |-> ratios_payload,
                        metrics_payload |-> metrics_payload,
                        pe |-> v.pe, pb |-> v.pb, debt_equity |-> v.debt_equity,
                        div_yield |-> v.div_yield]
             /\ IF Missing(v)
                THEN /\ skipped_missing' = skipped_missing + 1
                     /\ results' = results
                ELSE /\ results' = Append(results, Evaluate(sym, exch, px, v))
                     /\ skipped_missing' = skipped_missing
    /\ i' = i + 1
    /\ UNCHANGED <<pc, err, df, stage1, norm>>

\* ------------------------------------------------------------------------
\* main(), lines 231-269: the report
\* ------------------------------------------------------------------------
AsInt(b) == IF b THEN 1 ELSE 0

\* lines 235-240
WithRulesPassed(rec) ==
    [ticker |-> rec.ticker, exchange |-> rec.exchange, price |-> rec.price,
     divYield |-> rec.divYield, pe |-> rec.pe, pb |-> rec.pb,
     debtEquity |-> rec.debtEquity,
     rule_div |-> rec.rule_div, rule_pe |-> rec.rule_pe,
     rule_pb |-> rec.rule_pb, rule_de |-> rec.rule_de,
     passes |-> rec.passes,
     rulesPassed |-> AsInt(rec.rule_div) + AsInt(rec.rule_pe)
                     + AsInt(rec.rule_pb) + AsInt(rec.rule_de)]

\* drop(columns=["passes"]) on a row of pass_df
PassEntry(rec) ==
    [ticker |-> rec.ticker, exchange |-> rec.exchange, price |-> rec.price,
     divYield |-> rec.divYield, pe |-> rec.pe, pb |-> rec.pb,
     debtEquity |-> rec.debtEquity,
     rule_div |-> rec.rule_div, rule_pe |-> rec.rule_pe,
     rule_pb |-> rec.rule_pb, rule_de |-> rec.rule_de]

\* drop(columns=["passes"]) on a row of top_df
TopEntry(rec) ==
    [ticker |-> rec.ticker, exchange |-> rec.exchange, price |-> rec.price,
     divYield |-> rec.divYield, pe |-> rec.pe, pb |-> rec.pb,
     debtEquity |-> rec.debtEquity,
     rule_div |-> rec.rule_div, rule_pe |-> rec.rule_pe,
     rule_pb |-> rec.rule_pb, rule_de |-> rec.rule_de,
     rulesPassed |-> rec.rulesPassed]

\* line 233
PassFrame(out) == Filter(out, { j \in 1..Len(out) : out[j].passes })

\* line 241: sort_values(["rulesPassed", "divYield"], ascending=[False, False])
TopBefore(a, b) ==
    \/ a.rulesPassed > b.rulesPassed
    \/ a.rulesPassed = b.rulesPassed /\ Ge(a.divYield, b.divYield)

\* the orders line 241 may leave the rows in
TopOrders(scored) ==
    { t \in Arrangements(scored) :
        \A j \in 1..(Len(t) - 1) : TopBefore(t[j], t[j + 1]) }

WriteReport ==
    /\ pc = "loop"
    /\ i > Len(stage1)
    /\ LET out == results
           pass_df == PassFrame(out)
           scored == [j \in 1..Len(out) |-> WithRulesPassed(out[j])]
       IN  \E sorted \in TopOrders(scored) :
             LET top_df == HeadN(sorted, TOP_N)
                 stats == [treasuryYield10y |-> TREASURY_10Y,
                           universe |-> Len(df),
                           stage1_prefilter |-> Len(stage1),
                           evaluated |-> Len(out),
                           skipped_missing |-> skipped_missing,
                           all_rules_pass |-> Len(pass_df),
                           debug_files_written |-> debug_saved]
                 payload == [runDate |-> "run_date",
                             stats |-> stats,
                             pass |-> [j \in 1..Len(pass_df) |-> PassEntry(pass_df[j])],
                             topCandidates |->
                                 [j \in 1..Len(top_df) |-> TopEntry(top_df[j])]]
             IN  files' = WriteFile(WriteFile(files, "passlist.json", payload),
                                    "passlist.csv", pass_df)
    /\ pc' = "done"
    /\ UNCHANGED <<err, df, stage1, i, results, skipped_missing, debug_saved, loc, norm>>

Next ==
    \/ FetchUniverse
    \/ FetchRatiosFails
    \/ FetchMetricsFails
    \/ Enrich
    \/ WriteReport

Spec == Init /\ [][Next]_vars

\* ------------------------------------------------------------------------
\* _normalize_div_yield applied to a value and then to its own result
\* ------------------------------------------------------------------------
NormInputs ==
    { Num(n, d) : n \in (-MaxYield)..MaxYield, d \in {1, 8} }
    \cup { None, BadStr, NumStr(62, 10), NumStr(101, 1) }

NormInit ==
    /\ MainInit
    /\ \E x \in NormInputs : norm = [step |-> 0, x |-> x, once |-> None, twice |-> None]

NormalizeOnce ==
    /\ norm.step = 0
    /\ norm' = [norm EXCEPT !.step = 1, !.once = _normalize_div_yield(norm.x)]
    /\ UNCHANGED mainVars

NormalizeTwice ==
    /\ norm.step = 1
    /\ norm' = [norm EXCEPT !.step = 2, !.twice = _normalize_div_yield(norm.once)]
    /\ UNCHANGED mainVars

NormNext == NormalizeOnce \/ NormalizeTwice

SpecNorm == NormInit /\ [][NormNext]_vars

\* ------------------------------------------------------------------------
\* Properties
\* ------------------------------------------------------------------------
Zero == Num(0, 1)

Written == "passlist.json" \in DOMAIN files
Report == files["passlist.json"]

\* the number of rule flags of a record that are true
FlagCount(rec) ==
    Cardinality({ f \in {"rule_div", "rule_pe", "rule_pb", "rule_de"} : rec[f] })

AllFlags(rec) == rec.rule_div /\ rec.rule_pe /\ rec.rule_pb /\ rec.rule_de

\* the entries of a list of the report that belong to the results record rec
EntriesOf(list, rec) ==
    { j \in 1..Len(list) :
        /\ list[j].ticker = rec.ticker
        /\ list[j].divYield = rec.divYield
        /\ list[j].pe = rec.pe
        /\ list[j].pb = rec.pb
        /\ list[j].debtEquity = rec.debtEquity
        /\ list[j].price = rec.price }

\* one of the four values of the loop body is None
HasNull(l) ==
    l.pe = None \/ l.pb = None \/ l.debt_equity = None \/ l.div_yield = None

\* the loop body has just run to its end on one ticker
Iterated == InLoop /\ i' = i + 1

\* C1: every evaluated record has passes true exactly when its four rule
\* flags are all true; in the written report every topCandidates entry
\* carries rulesPassed equal to the number of its true flags, and a record
\* is in the pass list exactly when that number is 4.
C1_PassIffAllFour ==
    /\ \A j \in 1..Len(results) : results[j].passes <=> AllFlags(results[j])
    /\ Written =>
         /\ \A j \in 1..Len(Report.topCandidates) :
              Report.topCandidates[j].rulesPassed = FlagCount(Report.topCandidates[j])
         /\ \A j \in 1..Len(results) :
              (EntriesOf(Report.pass, results[j]) # {}) <=> (FlagCount(results[j]) = 4)
         /\ \A j \in 1..Len(Report.pass) : FlagCount(Report.pass[j]) = 4

C1_Witness ==
    /\ Written
    /\ Len(Report.pass) = 1
    /\ \E j \in 1..Len(Report.topCandidates) :
         Report.topCandidates[j].rulesPassed \in 1..3

\* C2: a negative price/earnings never satisfies the price/earnings rule, a
\* negative price/book never satisfies the price/book rule, and a record
\* with either one negative is not an all-rules pass.
C2_NegativeIsUnratable ==
    \A j \in 1..Len(results) :
        /\ Lt(results[j].pe, Zero) => ~results[j].rule_pe
        /\ Lt(results[j].pb, Zero) => ~results[j].rule_pb
        /\ (Lt(results[j].pe, Zero) \/ Lt(results[j].pb, Zero)) => ~results[j].passes

\* C3: no step of the enrichment loop ends the run: a per-ticker request
\* that fails leaves main() running.
C3_EntityFailureNeverAborts == [][InLoop => pc' # "aborted"]_vars

\* C4: when main() has ended with a fatal error, no file has been written.
C4_NoFileBeforeAbort == (pc = "aborted") => (DOMAIN files = {})

\* C5: the pass list of the written report is in descending order of the
\* reported dividend yield, ties in ascending order of price/earnings.
C5_PassListSorted ==
    Written =>
      \A j \in 1..(Len(Report.pass) - 1) :
        \/ Gt(Report.pass[j].divYield, Report.pass[j + 1].divYield)
        \/ /\ Report.pass[j].divYield = Report.pass[j + 1].divYield
           /\ Le(Report.pass[j].pe, Report.pass[j + 1].pe)

\* C6, as claimed: normalizing an already normalized value changes nothing,
\* for every input.
C6_Idempotent == (norm.step = 2) => (norm.twice = norm.once)

\* C6, amended: normalizing an already normalized value changes nothing for
\* every input that is not a number above 100.
C6_IdempotentUpTo100 ==
    (norm.step = 2 /\ ~Gt(_to_float(norm.x), Hundred)) => (norm.twice = norm.once)

C6_Witness ==
    /\ norm.step = 2
    /\ Gt(norm.x, One)
    /\ Le(norm.x, Hundred)
    /\ Lt(norm.once, norm.x)
    /\ norm.twice = norm.once

\* C7: the pass list and the topCandidates list of the written report hold
\* at most one entry per ticker.
C7_OneEntryPerTicker ==
    Written =>
      /\ \A j, k \in 1..Len(Report.pass) :
           Report.pass[j].ticker = Report.pass[k].ticker => j = k
      /\ \A j, k \in 1..Len(Report.topCandidates) :
           Report.topCandidates[j].ticker = Report.topCandidates[k].ticker => j = k

\* the last record of results is the evaluation of the ticker in loc', with
\* each rule computed from its own value
EvaluatedLast ==
    /\ Len(results') = Len(results) + 1
    /\ LET rec == results'[Len(results')]
       IN  /\ rec.ticker = loc'.sym
           /\ rec.rule_pe = Le(loc'.pe, PE_MAX)
           /\ rec.rule_pb = Le(loc'.pb, PB_MAX)
           /\ rec.rule_de = Le(loc'.debt_equity, DE_MAX)
           /\ rec.rule_div = Ge(loc'.div_yield, TREASURY_10Y)
           /\ FlagCount(rec) \in 0..4
           /\ (loc'.pe = None => ~rec.rule_pe)
           /\ (loc'.pb = None => ~rec.rule_pb)
           /\ (loc'.debt_equity = None => ~rec.rule_de)
           /\ (loc'.div_yield = None => ~rec.rule_div)

Supplied(rec, keys) ==
    IF IsDict(rec)
    THEN { j \in 1..Len(keys) : keys[j] \in DOMAIN rec.d /\ rec.d[keys[j]] # None }
    ELSE {}

\* the non-None value rec holds under the first such key
SuppliedValue(rec, keys) ==
    rec.d[keys[CHOOSE j \in Supplied(rec, keys) : \A m \in Supplied(rec, keys) : j <= m]]

\* a value float() turns into a number
Parses(x) == x.k \in {"num", "numstr"}

LastRatios == _extract_first_record(loc.ratios_payload)
LastMetrics == _extract_first_record(loc.metrics_payload)

\* the loop body has run to its end at least once and loc holds its values
LocComplete == pc # "aborted" /\ i > 1

\* C9, as claimed: whenever the ratios record holds a non-None value under
\* one of a field's keys, the value used is that one; whenever the ratios
\* record holds no dividend yield and the key-metrics record holds a
\* non-None one, the yield used is the key-metrics one, not the estimate.
C9_SuppliedTakesPrecedence ==
    LocComplete =>
      /\ Supplied(LastRatios, RATIOS_PE_KEYS) # {} =>
           loc.pe = _to_float(SuppliedValue(LastRatios, RATIOS_PE_KEYS))
      /\ Supplied(LastRatios, RATIOS_PB_KEYS) # {} =>
           loc.pb = _to_float(SuppliedValue(LastRatios, RATIOS_PB_KEYS))
      /\ Supplied(LastRatios, DE_KEYS) # {} =>
           loc.debt_equity = _to_float(SuppliedValue(LastRatios, DE_KEYS))
      /\ Supplied(LastRatios, DY_KEYS) # {} =>
           loc.div_yield = _normalize_div_yield(SuppliedValue(LastRatios, DY_KEYS))
      /\ (Supplied(LastRatios, DY_KEYS) = {} /\ Supplied(LastMetrics, DY_KEYS) # {}) =>
           loc.div_yield = _normalize_div_yield(SuppliedValue(LastMetrics, DY_KEYS))

\* rec holds a non-None value under one of keys, and the first such value
\* is a number or a string that parses as one
SuppliesNumber(rec, keys) ==
    Supplied(rec, keys) # {} /\ Parses(SuppliedValue(rec, keys))

\* C9, amended: the same, for values that parse as numbers: a first
\* non-None value of the ratios record that is a number is the value used,
\* and the estimate is used for the yield only when neither record's first
\* non-None yield is a number.
C9_NumberTakesPrecedence ==
    LocComplete =>
      /\ SuppliesNumber(LastRatios, RATIOS_PE_KEYS) =>
           loc.pe = _to_float(SuppliedValue(LastRatios, RATIOS_PE_KEYS))
      /\ SuppliesNumber(LastRatios, RATIOS_PB_KEYS) =>
           loc.pb = _to_float(SuppliedValue(LastRatios, RATIOS_PB_KEYS))
      /\ SuppliesNumber(LastRatios, DE_KEYS) =>
           loc.debt_equity = _to_float(SuppliedValue(LastRatios, DE_KEYS))
      /\ SuppliesNumber(LastRatios, DY_KEYS) =>
           loc.div_yield = _normalize_div_yield(SuppliedValue(LastRatios, DY_KEYS))
      /\ (~SuppliesNumber(LastRatios, DY_KEYS) /\ SuppliesNumber(LastMetrics, DY_KEYS)) =>
           loc.div_yield = _normalize_div_yield(SuppliedValue(LastMetrics, DY_KEYS))
      /\ (~SuppliesNumber(LastRatios, DY_KEYS) /\ ~SuppliesNumber(LastMetrics, DY_KEYS)) =>
           loc.div_yield = _normalize_div_yield(loc.est)

C9_Witness ==
    /\ LocComplete
    /\ SuppliesNumber(LastRatios, RATIOS_PE_KEYS)
    /\ SuppliesNumber(LastMetrics, METRICS_PE_KEYS)
    /\ loc.pe # _to_float(SuppliedValue(LastMetrics, METRICS_PE_KEYS))
    /\ SuppliesNumber(LastRatios, DY_KEYS)
    /\ SuppliesNumber(LastMetrics, DY_KEYS)
    /\ loc.div_yield # _normalize_div_yield(loc.est)

\* C10: a ticker with a None among its four values gets no record and adds
\* exactly one to skipped_missing, any other ticker gets exactly one record
\* and adds nothing; records plus skips equal the tickers processed so far;
\* every entry of the report's lists belongs to a record; and the report's
\* stats satisfy evaluated + skipped_missing = stage1_prefilter and
\* all_rules_pass = length of pass <= evaluated.
C10_SkipAccounting ==
    [][/\ Iterated =>
            IF HasNull(loc')
            THEN results' = results /\ skipped_missing' = skipped_missing + 1
            ELSE Len(results') = Len(results) + 1 /\ skipped_missing' = skipped_missing
       /\ Len(results') + skipped_missing' = i' - 1
       /\ Written' =>
            LET rep == files'["passlist.json"]
            IN  /\ rep.stats.evaluated + rep.stats.skipped_missing
                     = rep.stats.stage1_prefilter
                /\ rep.stats.evaluated = Len(results')
                /\ rep.stats.all_rules_pass = Len(rep.pass)
                /\ Len(rep.pass) <= rep.stats.evaluated
                /\ \A j \in 1..Len(rep.pass) :
                     \E k \in 1..Len(results') : j \in EntriesOf(rep.pass, results'[k])
                /\ \A j \in 1..Len(rep.topCandidates) :
                     \E k \in 1..Len(results') :
                         j \in EntriesOf(rep.topCandidates, results'[k])]_vars

C10_Witness ==
    /\ Written
    /\ Report.stats.skipped_missing = 1
    /\ Report.stats.evaluated = 1
    /\ Report.stats.all_rules_pass = 1

====
